---- MODULE Spec2Model ----
(***************************************************************************)
(* Model of pyqtgraph/parametertree/interactive.py: the Interactor with    *)
(* its options, the InteractiveFunction wrapper and the Parameter signals  *)
(* they are connected to.                                                  *)
(***************************************************************************)
EXTENDS Integers, Sequences, FiniteSets, TLC

VARIABLES
  opts,                     \* Interactor: the option attributes
  optStack,                 \* dicts returned by setOpts / open option contexts
  function,                 \* InteractiveFunction.function: the wrapped signature
  closures,                 \* InteractiveFunction.closures
  extra,                    \* InteractiveFunction.extra
  parameters,               \* InteractiveFunction.parameters
  disconnected,             \* InteractiveFunction._disconnected
  parametersNeedRunKwargs,  \* InteractiveFunction.parametersNeedRunKwargs
  parameterCache,           \* InteractiveFunction.parameterCache
  pool,                     \* the Parameter objects created so far
  runs,                     \* keyword dicts the wrapped function got in the last operation
  rets,                     \* what the runFrom* slots returned in the last operation
  interactBound,            \* parameters created by the latest completed interact()
  image,                    \* the NonUniformImage item and its attributes
  last                      \* the last operation, its inputs and outcome

optVars == <<opts, optStack, last>>

fnVars ==
  <<function, closures, extra, parameters, disconnected, parametersNeedRunKwargs,
    parameterCache, pool, runs, rets, interactBound>>

imgVars == <<image>>

vars == <<optVars, fnVars, imgVars>>

(***************************************************************************)
(* Bounds of the model.                                                    *)
(***************************************************************************)
\* Deepest nesting of pending setOpts results / open option contexts.
MaxDepth == 3

\* Most Parameter objects in existence, the user's own group included.
MaxParams == 3

\* Longest InteractiveFunction.parameters.
MaxHooked == 2

\* No NonUniformImage has been constructed.
NoImage == [constructed |-> FALSE]

(***************************************************************************)
(* RunOpts and the Interactor's options.                                   *)
(***************************************************************************)
ON_ACTION == "action"

ON_CHANGED == "changed"

ON_CHANGING == "changing"

\* Interactor._optNames
optNames == {"runOpts", "parent", "title", "nest", "existOk", "runActionTemplate"}

\* The class attributes of Interactor: the options of a fresh instance.
defaultOpts ==
  [runOpts |-> {ON_CHANGED}, parent |-> "None", title |-> "None",
   nest |-> TRUE, existOk |-> TRUE, runActionTemplate |-> "Run"]

\* The empty dict.
EmptyDict == [kk \in {} |-> 0]

\* dict.update: the entries of upd replace or extend those of d.
DictUpdate(d, upd) ==
  [kk \in DOMAIN d \cup DOMAIN upd |-> IF kk \in DOMAIN upd THEN upd[kk] ELSE d[kk]]

\* Interactor.getOpts: the value of every option name.
getOpts(self) == [attr \in optNames |-> self[attr]]

\* A faulty setOpts that returns the new values instead of the overridden ones.
setOptsReturnsNew(self, o) ==
  LET oldOpts == getOpts(self)
      errors == DOMAIN o \ DOMAIN oldOpts
  IN  IF errors # {}
      THEN [self |-> self, ret |-> EmptyDict, exc |-> "KeyError"]
      ELSE [self |-> DictUpdate(self, o), ret |-> o, exc |-> "none"]

\* A faulty setOpts that applies the recognised keys before rejecting the call.
setOptsPartial(self, o) ==
  LET oldOpts == getOpts(self)
      errors == DOMAIN o \ DOMAIN oldOpts
      good == [kk \in DOMAIN o \cap DOMAIN oldOpts |-> o[kk]]
  IN  IF errors # {}
      THEN [self |-> DictUpdate(self, good), ret |-> EmptyDict, exc |-> "KeyError"]
      ELSE [self |-> DictUpdate(self, o),
            ret |-> [kk \in DOMAIN o |-> oldOpts[kk]], exc |-> "none"]

\* Interactor.setOpts(**o): the instance afterwards, the dict returned and
\* the exception raised.
setOpts(self, o) ==
  LET oldOpts == getOpts(self)
      allowed == DOMAIN oldOpts
      errors == DOMAIN o \ allowed
  IN  IF errors # {}
      THEN [self |-> self, ret |-> EmptyDict, exc |-> "KeyError"]
      ELSE LET toReturn == [kk \in DOMAIN o |-> oldOpts[kk]]
               toUse == o
           IN  [self |-> DictUpdate(self, toUse), ret |-> toReturn, exc |-> "none"]

(***************************************************************************)
(* Inputs of setOpts and optsContext: keyword dicts over the option names  *)
(* and one unrecognised key.                                               *)
(***************************************************************************)
OptInputs ==
  {EmptyDict,
   [nest |-> FALSE],
   [runOpts |-> {ON_ACTION}, title |-> "T"],
   [nest |-> TRUE, parent |-> "P", existOk |-> FALSE, runActionTemplate |-> "Go"],
   [bogus |-> 0],
   [nest |-> FALSE, bogus |-> 0]}

(***************************************************************************)
(* The options of one Interactor under setOpts and optsContext.  optStack  *)
(* holds, innermost last, the dicts setOpts returned that the caller still *)
(* holds (ctx = FALSE) and the option contexts still open (ctx = TRUE),    *)
(* each with the options as they were just before.                         *)
(***************************************************************************)
NoLast == [op |-> "init", exc |-> "none", bad |-> FALSE, keys |-> {}, pre |-> defaultOpts, ret |-> EmptyDict]

InitOpts ==
  /\ opts = defaultOpts
  /\ optStack = <<>>
  /\ last = NoLast
  /\ function = [name |-> "f", args |-> <<>>, kwargs |-> FALSE]
  /\ closures = EmptyDict
  /\ extra = EmptyDict
  /\ parameters = <<>>
  /\ disconnected = FALSE
  /\ parametersNeedRunKwargs = FALSE
  /\ parameterCache = EmptyDict
  /\ pool = <<>>
  /\ runs = <<>>
  /\ rets = <<>>
  /\ interactBound = {}
  /\ image = NoImage

\* A call setOpts(**o) whose returned dict the caller keeps.
SetOptsCall ==
  \E o \in OptInputs :
    LET r == setOpts(opts, o)
    IN  /\ Len(optStack) < MaxDepth
        /\ opts' = r.self
        /\ optStack' = IF r.exc = "none"
                        THEN Append(optStack, [pre |-> getOpts(opts), old |-> r.ret, ctx |-> FALSE])
                        ELSE optStack
        /\ last' = [op |-> "setOpts", exc |-> r.exc, bad |-> ~(DOMAIN o \subseteq optNames),
                    keys |-> DOMAIN o, pre |-> getOpts(opts), ret |-> r.ret]

\* The caller passes the dict of the latest setOpts call back to setOpts.
UndoSetOpts ==
  /\ optStack # <<>>
  /\ ~optStack[Len(optStack)].ctx
  /\ LET top == optStack[Len(optStack)]
         r == setOpts(opts, top.old)
     IN  /\ opts' = r.self
         /\ optStack' = SubSeq(optStack, 1, Len(optStack) - 1)
         /\ last' = [op |-> "undo", exc |-> r.exc, bad |-> FALSE, keys |-> DOMAIN top.old,
                     pre |-> top.pre, ret |-> r.ret]

\* with self.optsContext(**o): the generator runs up to its yield.
OptsContextEnter ==
  \E o \in OptInputs :
    LET r == setOpts(opts, o)
    IN  /\ Len(optStack) < MaxDepth
        /\ opts' = r.self
        /\ optStack' = IF r.exc = "none"
                        THEN Append(optStack, [pre |-> getOpts(opts), old |-> r.ret, ctx |-> TRUE])
                        ELSE optStack
        /\ last' = [op |-> "enter", exc |-> r.exc, bad |-> ~(DOMAIN o \subseteq optNames),
                    keys |-> DOMAIN o, pre |-> getOpts(opts), ret |-> r.ret]

\* The with-body completes: the generator resumes after its yield.
OptsContextExit ==
  /\ optStack # <<>>
  /\ optStack[Len(optStack)].ctx
  /\ LET top == optStack[Len(optStack)]
         r == setOpts(opts, top.old)
     IN  /\ opts' = r.self
         /\ optStack' = SubSeq(optStack, 1, Len(optStack) - 1)
         /\ last' = [op |-> "exit", exc |-> r.exc, bad |-> FALSE, keys |-> DOMAIN top.old,
                     pre |-> top.pre, ret |-> r.ret]

\* The with-body raises: the exception is thrown into the generator at its
\* yield, which has no try/finally, so the statement after it never runs.
OptsContextRaise ==
  /\ optStack # <<>>
  /\ optStack[Len(optStack)].ctx
  /\ LET top == optStack[Len(optStack)]
     IN  /\ opts' = opts
         /\ optStack' = SubSeq(optStack, 1, Len(optStack) - 1)
         /\ last' = [op |-> "exitRaise", exc |-> "body", bad |-> FALSE, keys |-> DOMAIN top.old,
                     pre |-> top.pre, ret |-> EmptyDict]

NextOpts ==
  \/ SetOptsCall /\ UNCHANGED <<fnVars, imgVars>>
  \/ UndoSetOpts /\ UNCHANGED <<fnVars, imgVars>>
  \/ OptsContextEnter /\ UNCHANGED <<fnVars, imgVars>>
  \/ OptsContextExit /\ UNCHANGED <<fnVars, imgVars>>
  \/ OptsContextRaise /\ UNCHANGED <<fnVars, imgVars>>

SpecOpts == InitOpts /\ [][NextOpts]_vars

NextSetOpts ==
  \/ SetOptsCall /\ UNCHANGED <<fnVars, imgVars>>
  \/ UndoSetOpts /\ UNCHANGED <<fnVars, imgVars>>

\* Only setOpts calls, each undone with the dict it returned.
SpecSetOpts == InitOpts /\ [][NextSetOpts]_vars

(***************************************************************************)
(* Claims about the options.                                               *)
(***************************************************************************)
\* C1: when an option context expires, by normal completion of the with-body
\* or by an exception raised inside it, getOpts() equals what it was just
\* before the context was entered.
C1_ContextRestoresOpts ==
  last.op \in {"exit", "exitRaise"} => getOpts(opts) = last.pre

\* C9: setOpts with an unrecognised key raises KeyError and leaves every
\* option unchanged, also when the call holds valid keys as well.
C9_UnknownKeyChangesNothing ==
  (last.op = "setOpts" /\ last.bad) =>
    (last.exc = "KeyError" /\ getOpts(opts) = last.pre)

\* A call with a valid key whose value differs from the current one, next to
\* an unrecognised key, was rejected.
C9_Witness ==
  /\ last.op = "setOpts"
  /\ last.bad
  /\ "nest" \in last.keys
  /\ last.pre.nest = TRUE
  /\ last.exc = "KeyError"

\* C10: setOpts returns, for exactly the keys passed, the value each option
\* had before the call, and passing the returned dicts back in reverse order
\* restores getOpts() to what it was before the corresponding call.
C10_SetOptsRoundTrip ==
  /\ (last.op = "setOpts" /\ last.exc = "none") =>
       last.ret = [kk \in last.keys |-> last.pre[kk]]
  /\ last.op = "undo" => (last.exc = "none" /\ getOpts(opts) = last.pre)

\* Two nested setOpts calls that changed options have both been undone.
C10_Witness ==
  /\ last.op = "undo"
  /\ optStack = <<>>
  /\ last.keys # {}
  /\ getOpts(opts) = defaultOpts

(***************************************************************************)
(* Parameter objects and their signals.  A Parameter is a record of the    *)
(* pool; group is the pool index of the group it is a child of (0: none).  *)
(* changed, changing and activated are the slots connected to              *)
(* sigValueChanged, sigValueChanging and sigActivated, in connection       *)
(* order.  The slots are the three bound methods of the one                *)
(* InteractiveFunction: "cache" is updateCachedParameterValues, "run" is   *)
(* runFromChangedOrChanging and "action" is runFromAction.                 *)
(***************************************************************************)
\* RunOpts.PARAM_UNSET, the sentinel that is no value of any parameter.
PARAM_UNSET == -1

\* The values a parameter takes.
Values == {0, 1}

\* Parameter.create(**opts): a parameter with no parent and no connections.
ParameterCreate(name, kind, value) ==
  [name |-> name, kind |-> kind, value |-> value, group |-> 0, held |-> FALSE,
   changed |-> <<>>, changing |-> <<>>, activated |-> <<>>]

\* Signal.connect(slot): connections are kept per call, in order.
Connect(slots, slot) == Append(slots, slot)

IsConnected(slots, slot) == \E i \in 1..Len(slots) : slots[i] = slot

\* Signal.disconnect(slot): one connection of slot is removed.
DisconnectOne(slots, slot) ==
  LET i == CHOOSE k \in 1..Len(slots) :
             slots[k] = slot /\ \A j \in 1..(k - 1) : slots[j] # slot
  IN  SubSeq(slots, 1, i - 1) \o SubSeq(slots, i + 1, Len(slots))

\* The program state the methods below act on, as one record.
State ==
  [opts |-> opts, function |-> function, closures |-> closures, extra |-> extra,
   parameters |-> parameters, disconnected |-> disconnected,
   needKw |-> parametersNeedRunKwargs, cache |-> parameterCache, pool |-> pool,
   runs |-> <<>>, rets |-> <<>>, exc |-> "none"]

Range(seq) == {seq[i] : i \in 1..Len(seq)}

(***************************************************************************)
(* InteractiveFunction.                                                    *)
(***************************************************************************)
RECURSIVE call(_, _)
RECURSIVE updateParametersFromRunKwargs(_, _)
RECURSIVE setValue(_, _, _)
RECURSIVE emit(_, _, _, _)
RECURSIVE slotCall(_, _, _, _)
RECURSIVE runFromChangedOrChanging(_, _, _)
RECURSIVE runFromAction(_, _)
RECURSIVE setValues(_, _, _)

\* InteractiveFunction.disconnect
disconnect(s) == [s EXCEPT !.disconnected = TRUE]

\* InteractiveFunction.setDisconnected
setDisconnected(s, d) == [s EXCEPT !.disconnected = d]

\* InteractiveFunction.reconnect
reconnect(s) == [s EXCEPT !.disconnected = FALSE]

\* A faulty updateCachedParameterValues that stores nothing.
updateCachedStoresNothing(s, param, value) == s

\* InteractiveFunction.updateCachedParameterValues
updateCachedParameterValues(s, param, value) ==
  [s EXCEPT !.cache = DictUpdate(@, [kk \in {s.pool[param].name} |-> value])]

\* A faulty __call__ in which the cached values win over the call's keywords.
callCacheWins(s, kwargs) ==
  LET s1 == IF s.needKw THEN updateParametersFromRunKwargs(s, kwargs) ELSE s
      runKwargs == DictUpdate(DictUpdate(DictUpdate(s1.extra, kwargs), s1.closures), s1.cache)
  IN  [s1 EXCEPT !.runs = Append(@, runKwargs)]

\* InteractiveFunction.__call__(**kwargs): the wrapped function is invoked
\* with extra, then the cache, then the closures' results, then kwargs.
call(s, kwargs) ==
  LET s1 == IF s.needKw THEN updateParametersFromRunKwargs(s, kwargs) ELSE s
      runKwargs == DictUpdate(DictUpdate(DictUpdate(s1.extra, s1.cache), s1.closures), kwargs)
  IN  [s1 EXCEPT !.runs = Append(@, runKwargs)]

\* Parameter.setValue: an unchanged value emits nothing; a new one is
\* stored and sigValueChanged is emitted to the slots connected at that time.
setValue(s, param, value) ==
  IF s.pool[param].value = value THEN s
  ELSE emit([s EXCEPT !.pool[param].value = value], s.pool[param].changed, param, value)

\* Signal.emit: the slots run one after the other in connection order.
emit(s, slots, param, value) ==
  IF slots = <<>> THEN s
  ELSE emit(slotCall(s, Head(slots), param, value), Tail(slots), param, value)

slotCall(s, slot, param, value) ==
  CASE slot = "cache" -> updateCachedParameterValues(s, param, value)
    [] slot = "run" -> runFromChangedOrChanging(s, param, value)
    [] slot = "action" -> runFromAction(s, EmptyDict)

\* The loop of _updateParametersFromRunKwargs over self.parameters.
setValues(s, params, kwargs) ==
  IF params = <<>> THEN s
  ELSE LET param == Head(params)
           name == s.pool[param].name
           s1 == IF name \in DOMAIN kwargs THEN setValue(s, param, kwargs[name]) ELSE s
       IN  setValues(s1, Tail(params), kwargs)

\* A faulty _updateParametersFromRunKwargs that leaves the function connected.
updateParametersStayConnected(s, kwargs) ==
  LET s2 == setValues(s, s.parameters, kwargs)
      keys == DOMAIN kwargs \cap DOMAIN s2.extra
  IN  [s2 EXCEPT !.extra = DictUpdate(@, [kk \in keys |-> kwargs[kk]])]

\* InteractiveFunction._updateParametersFromRunKwargs
updateParametersFromRunKwargs(s, kwargs) ==
  LET wasDisconnected == s.disconnected
      s1 == disconnect(s)
      s2 == setValues(s1, s1.parameters, kwargs)
      s3 == IF ~wasDisconnected THEN reconnect(s2) ELSE s2
      keys == DOMAIN kwargs \cap DOMAIN s3.extra
  IN  [s3 EXCEPT !.extra = DictUpdate(@, [kk \in keys |-> kwargs[kk]])]

\* A faulty runFromChangedOrChanging that ignores _disconnected.
runIgnoresDisconnected(s, param, value) ==
  LET oldPropagate == s.needKw
      s1 == call([s EXCEPT !.needKw = FALSE], [kk \in {s.pool[param].name} |-> value])
  IN  [s1 EXCEPT !.needKw = oldPropagate, !.rets = Append(@, "ret")]

\* InteractiveFunction.runFromChangedOrChanging
runFromChangedOrChanging(s, param, value) ==
  IF s.disconnected THEN [s EXCEPT !.rets = Append(@, "None")]
  ELSE LET oldPropagate == s.needKw
           s1 == call([s EXCEPT !.needKw = FALSE], [kk \in {s.pool[param].name} |-> value])
       IN  [s1 EXCEPT !.needKw = oldPropagate, !.rets = Append(@, "ret")]

\* InteractiveFunction.runFromAction
runFromAction(s, kwargs) ==
  IF s.disconnected THEN [s EXCEPT !.rets = Append(@, "None")]
  ELSE [call(s, kwargs) EXCEPT !.rets = Append(@, "ret")]

\* InteractiveFunction._disconnectParameter: the cache slot is disconnected
\* with Signal.disconnect, which raises TypeError when it is not connected;
\* the run slot with fn.disconnect, which reports failure without raising.
disconnectParameter(s, param) ==
  LET p == s.pool[param]
  IN  IF ~IsConnected(p.changed, "cache") THEN [s EXCEPT !.exc = "TypeError"]
      ELSE LET c1 == DisconnectOne(p.changed, "cache")
               ing == IF IsConnected(p.changing, "run")
                      THEN DisconnectOne(p.changing, "run") ELSE p.changing
               c2 == IF IsConnected(c1, "run") THEN DisconnectOne(c1, "run") ELSE c1
           IN  [s EXCEPT !.pool[param].changed = c2, !.pool[param].changing = ing]

RECURSIVE disconnectAll(_, _)
\* The loop of removeParameters over self.parameters.
disconnectAll(s, params) ==
  IF params = <<>> \/ s.exc # "none" THEN s
  ELSE disconnectAll(disconnectParameter(s, Head(params)), Tail(params))

\* InteractiveFunction.removeParameters
removeParameters(s, clearCache) ==
  LET s1 == disconnectAll(s, s.parameters)
  IN  IF s1.exc # "none" THEN s1
      ELSE [s1 EXCEPT !.parameters = <<>>,
                      !.cache = IF clearCache THEN EmptyDict ELSE @]

RECURSIVE hookupEach(_, _)
\* The loop of hookupParameters over params.
hookupEach(s, params) ==
  IF params = <<>> THEN s
  ELSE LET param == Head(params)
           s1 == [s EXCEPT !.parameters = Append(@, param),
                           !.pool[param].changed = Connect(@, "cache"),
                           !.cache = DictUpdate(@, [kk \in {s.pool[param].name} |->
                                                      s.pool[param].value])]
       IN  hookupEach(s1, Tail(params))

\* InteractiveFunction.hookupParameters
hookupParameters(s, params, clearOld) ==
  LET s1 == IF clearOld THEN removeParameters(s, TRUE) ELSE s
  IN  IF s1.exc # "none" THEN s1 ELSE hookupEach(s1, params)

(***************************************************************************)
(* Interactor.interact and the methods it calls.  The wrapped function is  *)
(* [name, args, kwargs]: args lists the named arguments of the signature   *)
(* in order, each [name, hasDefault, default]; kwargs tells whether the    *)
(* signature ends in a ** argument.  An override is                        *)
(* [isDict, hasValue, value]: a plain value, or a dict of parameter        *)
(* options that may or may not hold "value".                               *)
(***************************************************************************)
\* overrides.get(name, {})
NoOverride == [isDict |-> TRUE, hasValue |-> FALSE, value |-> PARAM_UNSET]

\* The names of a sequence of [name, ...] records, in order.
NamesOf(seq) == [i \in 1..Len(seq) |-> seq[i].name]

IndexOf(seq, x) == CHOOSE i \in 1..Len(seq) : seq[i] = x /\ \A j \in 1..(i - 1) : seq[j] # x

RECURSIVE SetToSeq(_)
\* The keys of a keyword dict as a list.
SetToSeq(S) ==
  IF S = {} THEN <<>>
  ELSE LET x == CHOOSE y \in S : TRUE IN <<x>> \o SetToSeq(S \ {x})

\* [n for n in seq if n not in S]
Without(seq, S) == SelectSeq(seq, LAMBDA n : n \notin S)

\* A faulty createFunctionParameter in which the signature default wins
\* over the override and a required argument gets the value 0.
createFunctionParameterDefaultsAll(name, signatureParameter, overridesInfo) ==
  [name |-> name,
   value |-> IF signatureParameter.present /\ signatureParameter.hasDefault
             THEN signatureParameter.default ELSE 0]

\* Interactor.createFunctionParameter: the child dict of one argument; only
\* its name and value matter here.
createFunctionParameter(name, signatureParameter, overridesInfo) ==
  LET signatureDict ==
        IF signatureParameter.present /\ signatureParameter.hasDefault
        THEN [value |-> signatureParameter.default] ELSE EmptyDict
      info == IF ~overridesInfo.isDict THEN [value |-> overridesInfo.value]
              ELSE IF overridesInfo.hasValue THEN [value |-> overridesInfo.value]
              ELSE EmptyDict
      pgDict == DictUpdate(signatureDict, info)
  IN  [name |-> name,
       value |-> IF "value" \in DOMAIN pgDict THEN pgDict["value"] ELSE PARAM_UNSET]

\* funcParams.get(name)
SignatureParameter(fun, name) ==
  IF \E i \in 1..Len(fun.args) : fun.args[i].name = name
  THEN LET a == fun.args[CHOOSE i \in 1..Len(fun.args) : fun.args[i].name = name]
       IN  [present |-> TRUE, hasDefault |-> a.hasDefault, default |-> a.default]
  ELSE [present |-> FALSE, hasDefault |-> FALSE, default |-> PARAM_UNSET]

\* The names functionToParameterDict makes children for.
CheckNames(fun, overrides) ==
  LET sigNames == NamesOf(fun.args)
  IN  IF fun.kwargs
      THEN sigNames \o SetToSeq(DOMAIN overrides \ Range(sigNames))
      ELSE sigNames

\* Interactor.functionToParameterDict: the children, one per name.
functionToParameterDict(fun, overrides) ==
  LET checkNames == CheckNames(fun, overrides)
  IN  [i \in 1..Len(checkNames) |->
         createFunctionParameter(
           checkNames[i], SignatureParameter(fun, checkNames[i]),
           IF checkNames[i] \in DOMAIN overrides THEN overrides[checkNames[i]]
           ELSE NoOverride)]

\* The user's own group parameter is the first object of the pool.
ParentRef(o) == IF o.parent = "P" THEN 1 ELSE 0

\* self.names[name] of a group: its children of that name.
ChildrenNamed(s, group, name) ==
  {i \in 1..Len(s.pool) : s.pool[i].group = group /\ s.pool[i].name = name}

\* Parameter.addChild(dict, existOk): the child is created from the dict; if
\* the group has a child of that name, that one is returned when existOk and
\* ValueError is raised otherwise.
addChildDict(s, group, child, existOk) ==
  LET same == ChildrenNamed(s, group, child.name)
  IN  IF same # {}
      THEN IF existOk THEN [s |-> s, child |-> CHOOSE i \in same : TRUE]
           ELSE [s |-> [s EXCEPT !.exc = "AlreadyExists"], child |-> 0]
      ELSE [s |-> [s EXCEPT !.pool = Append(@, [child EXCEPT !.group = group])],
            child |-> Len(s.pool) + 1]

\* Parameter.addChild(param, existOk) for a parameter object.
addChild(s, group, child, existOk) ==
  LET same == ChildrenNamed(s, group, s.pool[child].name) \ {child}
  IN  IF same # {}
      THEN IF existOk THEN s ELSE [s EXCEPT !.exc = "AlreadyExists"]
      ELSE [s EXCEPT !.pool[child].group = group]

\* Interactor._resolveFunctionGroup
resolveFunctionGroup(s) ==
  LET parent == ParentRef(s.opts)
  IN  IF s.opts.nest
      THEN LET s1 == [s EXCEPT !.pool = Append(@, ParameterCreate(s.function.name, "group", 0))]
               funcGroup == Len(s1.pool)
           IN  IF parent # 0
               THEN [s |-> addChild(s1, parent, funcGroup, s.opts.existOk),
                     funcGroup |-> funcGroup]
               ELSE [s |-> s1, funcGroup |-> funcGroup]
      ELSE [s |-> s, funcGroup |-> parent]

\* Interactor.resolveAndHookupParameterChild
resolveAndHookupParameterChild(s, funcGroup, childOpts) ==
  LET made == ParameterCreate(childOpts.name, "value", childOpts.value)
      r == IF funcGroup = 0
           THEN [s |-> [s EXCEPT !.pool = Append(@, made)], child |-> Len(s.pool) + 1]
           ELSE addChildDict(s, funcGroup, made, s.opts.existOk)
  IN  IF r.s.exc # "none" THEN r
      ELSE [s |-> [r.s EXCEPT
                     !.pool[r.child].changed =
                        IF ON_CHANGED \in s.opts.runOpts THEN Connect(@, "run") ELSE @,
                     !.pool[r.child].changing =
                        IF ON_CHANGING \in s.opts.runOpts THEN Connect(@, "run") ELSE @],
            child |-> r.child]

\* Interactor._makeRunAction: the action parameter, with runFromAction
\* connected to its sigActivated.
makeRunAction(s, nest) ==
  LET defaultName == s.opts.runActionTemplate
      name == IF nest THEN defaultName ELSE s.function.name
      child == [ParameterCreate(name, "action", 0) EXCEPT !.activated = Connect(@, "action")]
  IN  [s |-> [s EXCEPT !.pool = Append(@, child)], child |-> Len(s.pool) + 1]

RECURSIVE hookupChildren(_, _, _, _)
\* The loop of interact over checkNames that fills useParams.
hookupChildren(s, funcGroup, childOpts, useParams) ==
  IF childOpts = <<>> \/ s.exc # "none" THEN [s |-> s, useParams |-> useParams]
  ELSE LET r == resolveAndHookupParameterChild(s, funcGroup, Head(childOpts))
       IN  IF r.s.exc # "none" THEN [s |-> r.s, useParams |-> useParams]
           ELSE hookupChildren(r.s, funcGroup, Tail(childOpts), Append(useParams, r.child))

\* Nothing is returned by a call that raised.
NoResult(s) ==
  [s |-> s, kind |-> "raise", group |-> 0, list |-> <<>>, action |-> 0, made |-> {},
   runOpts |-> s.opts.runOpts]

\* interact: the names of the children that have no value from any source.
missingChildren(children, fun) ==
  {children[i].name : i \in {j \in 1..Len(children) :
      /\ children[j].value = PARAM_UNSET
      /\ children[j].name \notin DOMAIN fun.closures
      /\ children[j].name \notin DOMAIN fun.extra}}

\* interact from "ret = funcGroup or useParams" to its return.
finishInteract(s, funcGroup, useParams, oldOpts, fresh) ==
  LET base == [s |-> s, kind |-> IF funcGroup # 0 THEN "group" ELSE "list",
               group |-> funcGroup, list |-> IF funcGroup # 0 THEN <<>> ELSE useParams,
               action |-> 0, made |-> fresh, runOpts |-> s.opts.runOpts]
      r == IF ON_ACTION \in s.opts.runOpts
           THEN LET a == makeRunAction(s, s.opts.nest)
                    s1 == IF funcGroup # 0
                          THEN addChild(a.s, funcGroup, a.child, s.opts.existOk) ELSE a.s
                IN  IF useParams = <<>>
                    THEN [base EXCEPT !.s = s1, !.kind = "action", !.group = 0,
                                      !.list = <<>>, !.action = a.child]
                    ELSE [base EXCEPT !.s = s1, !.action = a.child]
           ELSE base
  IN  IF r.s.exc # "none" THEN [NoResult(r.s) EXCEPT !.action = r.action]
      ELSE [r EXCEPT !.s.opts = setOpts(r.s.opts, oldOpts).self]

\* Interactor.interact(function, ignores=..., **optOverrides, **overrides) on
\* the InteractiveFunction: what it returns and the state it leaves.
interact(s, ignoresArg, optOverrides, overrides) ==
  LET r0 == setOpts(s.opts, optOverrides)
      oldOpts == r0.ret
      s0 == [s EXCEPT !.opts = r0.self]
      children == functionToParameterDict(s.function, overrides)
      chNames == NamesOf(children)
      g == resolveFunctionGroup(s0)
      ignores == ignoresArg \cup DOMAIN s.closures
      recycleNames == {n \in ignores \cap Range(chNames) :
                         /\ n \notin DOMAIN s.extra
                         /\ children[IndexOf(chNames, n)].value # PARAM_UNSET}
      s1 == [g.s EXCEPT !.extra = DictUpdate(@, [n \in recycleNames |->
                                     children[IndexOf(chNames, n)].value])]
      missing == missingChildren(children, [closures |-> s1.closures, extra |-> s1.extra])
      checkNames == Without(chNames, ignores)
      childOpts == [i \in 1..Len(checkNames) |-> children[IndexOf(chNames, checkNames[i])]]
  IN  IF g.s.exc # "none" THEN NoResult(g.s)
      ELSE IF missing # {} THEN NoResult([s1 EXCEPT !.exc = "MissingArgs"])
      ELSE LET h == hookupChildren(s1, g.funcGroup, childOpts, <<>>)
               fresh == {h.useParams[i] : i \in 1..Len(h.useParams)} \ (1..Len(s1.pool))
           IN  IF h.s.exc # "none" THEN NoResult(h.s)
               ELSE LET s2 == hookupParameters(h.s, h.useParams, TRUE)
                    IN  IF s2.exc # "none" THEN NoResult(s2)
                        ELSE finishInteract(s2, g.funcGroup, h.useParams, oldOpts, fresh)

(***************************************************************************)
(* One InteractiveFunction, one Interactor and the parameters interact()   *)
(* makes for them, under the calls and signals of a client.                *)
(***************************************************************************)
\* The wrapped function f(a=0, b=0), with no closures and no extra.
Functions ==
  {[function |-> [name |-> "f",
                  args |-> <<[name |-> "a", hasDefault |-> TRUE, default |-> 0],
                             [name |-> "b", hasDefault |-> TRUE, default |-> 0]>>,
                  kwargs |-> FALSE],
    closures |-> EmptyDict, extra |-> EmptyDict]}

\* InteractiveFunction.__init__ and Interactor.__init__, and the group
\* parameter the client made to pass as parent.
Init ==
  /\ opts = defaultOpts
  /\ optStack = <<>>
  /\ \E f \in Functions :
       /\ function = f.function
       /\ closures = f.closures
       /\ extra = f.extra
  /\ parameters = <<>>
  /\ disconnected = FALSE
  /\ parametersNeedRunKwargs = FALSE
  /\ parameterCache = EmptyDict
  /\ pool = <<ParameterCreate("P", "group", 0)>>
  /\ runs = <<>>
  /\ rets = <<>>
  /\ interactBound = {}
  /\ image = NoImage
  /\ last = [op |-> "init"]

\* The state after an operation.
Commit(s) ==
  /\ opts' = s.opts
  /\ function' = s.function
  /\ closures' = s.closures
  /\ extra' = s.extra
  /\ parameters' = s.parameters
  /\ disconnected' = s.disconnected
  /\ parametersNeedRunKwargs' = s.needKw
  /\ parameterCache' = s.cache
  /\ pool' = s.pool
  /\ runs' = s.runs
  /\ rets' = s.rets
  /\ optStack' = optStack
  /\ image' = image

ValueParams == {i \in 1..Len(pool) : pool[i].kind = "value"}

ActionParams == {i \in 1..Len(pool) : pool[i].kind = "action"}

RECURSIVE DictsOver(_, _)
\* The keyword dicts with the keys ks, each key with one of its values.
DictsOver(ks, values) ==
  IF ks = {} THEN {EmptyDict}
  ELSE LET k == CHOOSE x \in ks : TRUE
       IN  {DictUpdate(d, [kk \in {k} |-> v]) :
              d \in DictsOver(ks \ {k}, values), v \in values[k]}

\* The option keywords interact() is called with; a key left out is
\* RunOpts.PARAM_UNSET.
InteractOptChoices ==
  LET places == {EmptyDict, [parent |-> "P"], [nest |-> FALSE],
                 [nest |-> FALSE, parent |-> "P"],
                 [nest |-> FALSE, parent |-> "P", existOk |-> FALSE],
                 [nest |-> FALSE, parent |-> "P", existOk |-> TRUE],
                 [parent |-> "P", existOk |-> FALSE],
                 [parent |-> "P", existOk |-> TRUE]}
      hows == {EmptyDict, [runOpts |-> {ON_ACTION, ON_CHANGED}], [runOpts |-> {ON_CHANGING}]}
  IN  {DictUpdate(pl, how) : pl \in places, how \in hows}

\* The option keywords of the calls that return the list of parameters.
ListOptChoices ==
  {[nest |-> FALSE], [nest |-> FALSE, runOpts |-> {ON_ACTION, ON_CHANGED}],
   [nest |-> FALSE, runOpts |-> {ON_CHANGING}]}

\* Whether option key k is in force with value v in a call with keywords o.
InForce(o, k, v) == IF k \in DOMAIN o THEN o[k] = v ELSE opts[k] = v

\* The Parameter objects a call interact(f, ignores=ig, **o) creates when
\* it runs to its end.
NewObjects(ig, o) ==
  LET nest == InForce(o, "nest", TRUE)
      noParent == InForce(o, "parent", "None")
      names == Range(NamesOf(function.args)) \ (ig \cup DOMAIN closures)
      made == IF nest \/ noParent THEN names
              ELSE {n \in names : \A i \in 1..Len(pool) :
                                    ~(pool[i].group = 1 /\ pool[i].name = n)}
      runOpts == IF "runOpts" \in DOMAIN o THEN o["runOpts"] ELSE opts.runOpts
  IN  (IF nest THEN 1 ELSE 0) + Cardinality(made)
        + (IF ON_ACTION \in runOpts THEN 1 ELSE 0)

\* The ignores interact() is called with.
IgnoreChoices == {{}, {"a"}, {"a", "b"}}

\* The keyword dicts of a direct call.
CallKwargs == UNION {DictsOver(ks, [a |-> Values, b |-> Values]) : ks \in SUBSET {"a", "b"}}

\* The parameter lists hookupParameters is called with.
HookupChoices ==
  {<<>>} \cup {<<p>> : p \in ValueParams}
         \cup {<<pq[1], pq[2]>> : pq \in {x \in ValueParams \X ValueParams : x[1] # x[2]}}

\* interact(f, ignores=ig, **o) with o one of choices.
InteractWith(choices) ==
  \E ig \in IgnoreChoices, o \in choices :
    /\ Len(pool) + NewObjects(ig, o) <= MaxParams
    /\ \E r \in {interact(State, ig, o, EmptyDict)} :
         /\ Commit([r.s EXCEPT !.pool = [i \in DOMAIN @ |->
                                           IF r.kind = "action" /\ i = r.action
                                           THEN [@[i] EXCEPT !.held = TRUE] ELSE @[i]]])
         /\ interactBound' = IF r.kind = "raise" THEN interactBound
                             ELSE IF ON_CHANGED \in r.runOpts THEN r.made ELSE {}
         /\ last' = [op |-> "interact", exc |-> r.s.exc, kind |-> r.kind, group |-> r.group,
                     list |-> r.list, action |-> r.action, runOpts |-> r.runOpts]

\* interact() with any placement of the parameters.
Interact == InteractWith(InteractOptChoices)

\* interact() returning the list of parameters.
InteractList == InteractWith(ListOptChoices)

\* The value of a parameter is committed: Parameter.setValue with a new
\* value, which emits sigValueChanged.
SetValue ==
  \E p \in ValueParams, v \in Values :
    /\ v # pool[p].value
    /\ Commit(setValue(State, p, v))
    /\ interactBound' = interactBound
    /\ last' = [op |-> "setValue", param |-> p, value |-> v]

\* A parameter emits sigValueChanging while it is edited.
ValueChanging ==
  \E p \in ValueParams, v \in Values :
    /\ pool[p].changing # <<>>
    /\ Commit(emit(State, pool[p].changing, p, v))
    /\ interactBound' = interactBound
    /\ last' = [op |-> "changing", param |-> p, value |-> v]

\* An action parameter the client can reach emits sigActivated.
Activate ==
  \E p \in ActionParams :
    /\ pool[p].group # 0 \/ pool[p].held
    /\ Commit(emit(State, pool[p].activated, p, 0))
    /\ interactBound' = interactBound
    /\ last' = [op |-> "activated", param |-> p, value |-> 0]

\* f.disconnect()
Disconnect ==
  /\ Commit(disconnect(State))
  /\ interactBound' = interactBound
  /\ last' = [op |-> "disconnect", ret |-> disconnected]

\* f.reconnect()
Reconnect ==
  /\ Commit(reconnect(State))
  /\ interactBound' = interactBound
  /\ last' = [op |-> "reconnect", ret |-> disconnected]

\* f.setDisconnected(d)
SetDisconnected ==
  \E d \in BOOLEAN :
    /\ Commit(setDisconnected(State, d))
    /\ interactBound' = interactBound
    /\ last' = [op |-> "setDisconnected", ret |-> disconnected]

\* The client assigns the public attribute f.parametersNeedRunKwargs.
SetParametersNeedRunKwargs ==
  \E b \in BOOLEAN :
    /\ b # parametersNeedRunKwargs
    /\ Commit([State EXCEPT !.needKw = b])
    /\ interactBound' = interactBound
    /\ last' = [op |-> "needKw"]

\* f(**kwargs)
Call ==
  \E kwargs \in CallKwargs :
    /\ Commit(call(State, kwargs))
    /\ interactBound' = interactBound
    /\ last' = [op |-> "call", kwargs |-> kwargs,
                moved |-> \E i \in 1..Len(parameters) :
                            /\ pool[parameters[i]].name \in DOMAIN kwargs
                            /\ pool[parameters[i]].value # kwargs[pool[parameters[i]].name]]

\* f.hookupParameters(params, clearOld) with clearOld one of flags.
HookupWith(flags) ==
  \E params \in HookupChoices, clearOld \in flags :
    LET s == hookupParameters(State, params, clearOld)
    IN  /\ Len(s.parameters) <= MaxHooked
        /\ Commit(s)
        /\ interactBound' = {}
        /\ last' = [op |-> "hookup", exc |-> s.exc, params |-> params, clearOld |-> clearOld,
                    old |-> parameters]

\* f.hookupParameters(params, clearOld)
HookupParameters == HookupWith(BOOLEAN)

\* f.hookupParameters(params), clearOld left at its default.
HookupCleared == HookupWith({TRUE})

\* f.removeParameters(clearCache)
RemoveParameters ==
  \E clearCache \in BOOLEAN :
    LET s == removeParameters(State, clearCache)
    IN  /\ Commit(s)
        /\ interactBound' = {}
        /\ last' = [op |-> "remove", exc |-> s.exc, clearCache |-> clearCache]

NextSignals ==
  \/ InteractList
  \/ SetValue
  \/ ValueChanging
  \/ Activate
  \/ Disconnect
  \/ Reconnect
  \/ SetDisconnected
  \/ SetParametersNeedRunKwargs
  \/ Call

\* A client that interacts, edits the parameters, calls the function and
\* disconnects and reconnects it.
SpecSignals == Init /\ [][NextSignals]_vars

\* The option keywords of the calls that place the parameters in a list
\* or in the client's group, reusing the children it has.
PlacedOptChoices ==
  {[nest |-> FALSE], [nest |-> FALSE, parent |-> "P"],
   [nest |-> FALSE, runOpts |-> {ON_CHANGING}], [parent |-> "P"]}

\* interact() that lists the parameters or places them in the client's group.
InteractPlaced == InteractWith(PlacedOptChoices)

NextCache ==
  \/ InteractPlaced
  \/ SetValue
  \/ ValueChanging
  \/ SetParametersNeedRunKwargs
  \/ HookupCleared
  \/ RemoveParameters

\* A client that interacts, edits the parameters and rebinds them; no call
\* of interact() raises.
SpecCache == Init /\ [][NextCache]_vars

NextBinding ==
  \/ Interact
  \/ SetValue
  \/ ValueChanging
  \/ HookupParameters
  \/ RemoveParameters

\* A client that interacts, edits the parameters and rebinds them.
SpecBinding == Init /\ [][NextBinding]_vars

(***************************************************************************)
(* Claims about the InteractiveFunction and interact().                    *)
(***************************************************************************)
\* The slots of the signal the last operation emitted.
EmittedTo ==
  CASE last.op = "setValue" -> pool[last.param].changed
    [] last.op = "changing" -> pool[last.param].changing
    [] last.op = "activated" -> pool[last.param].activated

Count(slots, slot) == Cardinality({i \in 1..Len(slots) : slots[i] = slot})

\* C2: while the function is disconnected, runFromChangedOrChanging and
\* runFromAction return None and the wrapped function is not invoked by any
\* parameter signal; while it is connected, each connected run slot invokes it.
C2_DisconnectedRunsNothing ==
  last.op \in {"setValue", "changing", "activated"} =>
    /\ Len(rets) = Len(EmittedTo) - Count(EmittedTo, "cache")
    /\ disconnected => (runs = <<>> /\ \A i \in 1..Len(rets) : rets[i] = "None")
    /\ ~disconnected => (Len(runs) = Len(rets) /\ \A i \in 1..Len(rets) : rets[i] = "ret")

\* A committed value change reached the run slot of a disconnected function.
C2_Witness ==
  /\ last.op = "setValue"
  /\ disconnected
  /\ IsConnected(pool[last.param].changed, "run")
  /\ rets = <<"None">>
  /\ runs = <<>>

\* C3: with parametersNeedRunKwargs, a direct call f(**kwargs) sets every
\* hooked parameter named in kwargs to the given value and invokes the
\* wrapped function exactly once, with the keywords of the call.
C3_CallRunsOnce ==
  (last.op = "call" /\ parametersNeedRunKwargs) =>
    /\ Len(runs) = 1
    /\ \A k \in DOMAIN last.kwargs : runs[1][k] = last.kwargs[k]
    /\ \A i \in 1..Len(parameters) :
         pool[parameters[i]].name \in DOMAIN last.kwargs =>
           pool[parameters[i]].value = last.kwargs[pool[parameters[i]].name]

\* A call changed the value of a hooked parameter that runs the function on
\* sigValueChanged, with the function connected.
C3_Witness ==
  /\ last.op = "call"
  /\ parametersNeedRunKwargs
  /\ ~disconnected
  /\ last.moved
  /\ \E i \in 1..Len(parameters) :
       /\ pool[parameters[i]].name \in DOMAIN last.kwargs
       /\ IsConnected(pool[parameters[i]].changed, "run")
  /\ Len(runs) = 1

\* C4: when the hooked parameters have pairwise distinct names,
\* parameterCache[p.name()] equals p.value() for every p in self.parameters.
C4_CacheCoherent ==
  LET hooked == Range(parameters)
  IN  (\A p \in hooked : \A q \in hooked : p # q => pool[p].name # pool[q].name) =>
        \A p \in hooked :
          /\ pool[p].name \in DOMAIN parameterCache
          /\ parameterCache[pool[p].name] = pool[p].value

\* One of two hooked parameters committed a new value.
C4_Witness ==
  /\ last.op = "setValue"
  /\ last.param \in Range(parameters)
  /\ Cardinality(Range(parameters)) = 2
  /\ parameterCache[pool[last.param].name] = last.value

C6_ActionReachable ==
  (last.op = "interact" /\ last.kind # "raise" /\ ON_ACTION \in last.runOpts) =>
    /\ last.action # 0
    /\ \/ last.kind = "action"
       \/ last.kind = "list" /\ last.action \in Range(last.list)
       \/ last.kind = "group" /\ pool[last.action].group = last.group

\* Whether no slot of the function is connected to the value signals of p.
Unbound(p) ==
  /\ ~IsConnected(pool[p].changed, "cache")
  /\ ~IsConnected(pool[p].changed, "run")
  /\ ~IsConnected(pool[p].changing, "run")

\* C7: after hookupParameters(params, clearOld=True), self.parameters is
\* params, parameterCache maps exactly the names of params to their values
\* (the value of a parameter whose name no other one of params has), and no slot of the function is left connected to a previously bound
\* parameter that is not in params; with clearOld=False the old parameters
\* stay bound and params are appended.
C7_HookupRebinds ==
  (last.op = "hookup" /\ last.exc = "none") =>
    IF last.clearOld
    THEN /\ parameters = last.params
         /\ DOMAIN parameterCache = {pool[p].name : p \in Range(last.params)}
         /\ \A p \in Range(last.params) :
              (\A q \in Range(last.params) : q # p => pool[q].name # pool[p].name) =>
                parameterCache[pool[p].name] = pool[p].value
         /\ \A p \in Range(last.old) \ Range(last.params) : Unbound(p)
    ELSE /\ parameters = last.old \o last.params
         /\ \A p \in Range(last.old) : IsConnected(pool[p].changed, "cache")

(***************************************************************************)
(* interact() on functions with required arguments, closures, extra        *)
(* arguments, overrides and ignores.                                       *)
(***************************************************************************)
\* The wrapped functions f(a, b) whose arguments may have the default 0 and
\* that may take **kwargs, with their closures and extra arguments.
ArgFunctions ==
  {[function |-> [name |-> "f",
                  args |-> <<[name |-> "a", hasDefault |-> da, default |-> 0],
                             [name |-> "b", hasDefault |-> db, default |-> 0]>>,
                  kwargs |-> kw],
    closures |-> cl, extra |-> ex] :
     da \in BOOLEAN, db \in BOOLEAN, kw \in BOOLEAN,
     cl \in {EmptyDict, [a |-> 1], [b |-> 1]},
     ex \in {EmptyDict, [a |-> 1], [b |-> 1]}}

\* An override given as a value, as a dict with a value and as a dict
\* without one.
OverrideValue == [isDict |-> FALSE, hasValue |-> TRUE, value |-> 1]

OverrideDictValue == [isDict |-> TRUE, hasValue |-> TRUE, value |-> 1]

OverrideDictNoValue == NoOverride

\* The **overrides interact() is called with.
OverrideChoices ==
  UNION {DictsOver(ks, [a |-> {OverrideValue, OverrideDictValue, OverrideDictNoValue},
                        b |-> {OverrideValue},
                        c |-> {OverrideValue, OverrideDictNoValue}]) :
           ks \in SUBSET {"a", "b", "c"}}

\* The ignores interact() is called with.
ArgIgnoreChoices == SUBSET {"a", "b", "c"}

InitArgs ==
  /\ opts = defaultOpts
  /\ optStack = <<>>
  /\ \E f \in ArgFunctions :
       /\ function = f.function
       /\ closures = f.closures
       /\ extra = f.extra
  /\ parameters = <<>>
  /\ disconnected = FALSE
  /\ parametersNeedRunKwargs = FALSE
  /\ parameterCache = EmptyDict
  /\ pool = <<ParameterCreate("P", "group", 0)>>
  /\ runs = <<>>
  /\ rets = <<>>
  /\ interactBound = {}
  /\ image = NoImage
  /\ last = [op |-> "init"]

\* The first interact(f, ignores=ig, nest=False, **overrides) on the
\* InteractiveFunction.
InteractArgs ==
  \E ig \in ArgIgnoreChoices, overrides \in OverrideChoices :
    /\ last.op = "init"
    /\ \E r \in {interact(State, ig, [nest |-> FALSE], overrides)} :
         /\ Len(r.s.pool) <= MaxParams
         /\ Commit(r.s)
         /\ interactBound' = r.made
         /\ last' = [op |-> "interactArgs", exc |-> r.s.exc, ignores |-> ig,
                     overrides |-> overrides, extra |-> extra]

NextArgs == InteractArgs

SpecArgs == InitArgs /\ [][NextArgs]_vars

\* Whether argument n has no value from any source in the last call.
NoValue(n) ==
  /\ ~\E i \in 1..Len(function.args) :
        function.args[i].name = n /\ function.args[i].hasDefault
  /\ ~(n \in DOMAIN last.overrides /\ last.overrides[n].hasValue)
  /\ n \notin DOMAIN closures
  /\ n \notin DOMAIN last.extra

\* The arguments of the last call: those of the signature and, when the
\* function takes **kwargs, the overridden names.
ArgumentsOfCall ==
  {function.args[i].name : i \in 1..Len(function.args)}
    \cup (IF function.kwargs THEN DOMAIN last.overrides ELSE {})

\* C8: interact() raises the ValueError for missing arguments exactly when
\* some argument has no signature default, no value in overrides, no closure
\* and no entry in extra, whether or not the argument is in ignores.
C8_RaisesIffArgumentLacksValue ==
  last.op = "interactArgs" =>
    ((last.exc = "MissingArgs") <=> (\E n \in ArgumentsOfCall : NoValue(n)))

\* interact() raised for an ignored argument without a value while another
\* required argument had its value from an override.
C8_Witness ==
  /\ last.op = "interactArgs"
  /\ last.exc = "MissingArgs"
  /\ \E n \in ArgumentsOfCall \cap last.ignores : NoValue(n)
  /\ \E m \in ArgumentsOfCall :
       /\ ~\E i \in 1..Len(function.args) :
             function.args[i].name = m /\ function.args[i].hasDefault
       /\ m \in DOMAIN last.overrides
       /\ last.overrides[m].hasValue

(***************************************************************************)
(* Model of pyqtgraph/graphicsItems/NonUniformImage.py.  An array is       *)
(* [shape, vals]: shape is the tuple of its dimensions and vals its        *)
(* elements in row-major order.  Coordinates and data values are integers; *)
(* NaN is the one value that is not a number.                              *)
(***************************************************************************)
\* Longest x and y.
MaxLen == 3

\* Largest coordinate in x and y.
MaxCoord == 2

\* Largest data value in z and largest level.
MaxZ == 2

\* Longest lookup table a client sets.
MaxLut == 3

\* The float NaN.
NaN == -99

\* nPts of the lookup table taken from the default colormap.
DefaultLutLen == 256

\* np.asarray of a flat list.
Arr1(vals) == [shape |-> <<Len(vals)>>, vals |-> vals]

\* np.asarray of nx rows of ny elements, given in row-major order.
Arr2(nx, ny, vals) == [shape |-> <<nx, ny>>, vals |-> vals]

\* ndarray.ndim
Ndim(a) == Len(a.shape)

\* np.any(np.diff(a) < 0) of a 1-d array.
AnyDiffNegative(a) ==
  \E i \in 1..(Len(a.vals) - 1) : a.vals[i + 1] - a.vals[i] < 0

\* No pen: self.edgecolors is None.
NonePen == [isNone |-> TRUE, color |-> "None", cosmetic |-> FALSE]

\* fn.mkPen(color), made cosmetic by __init__.
CosmeticPen(color) == [isNone |-> FALSE, color |-> color, cosmetic |-> TRUE]

\* kwargs.get(key), None when the key is absent.
KwargsGet(kwargs, key) == IF key \in DOMAIN kwargs THEN kwargs[key] ELSE "None"

\* self.levels, self.lut and self.picture when they are None.
NoLevels == [isNone |-> TRUE, mn |-> 0, mx |-> 0]

NoLut == [isNone |-> TRUE, table |-> <<>>]

NoPicture == [isNone |-> TRUE, batches |-> <<>>, outline |-> NonePen, Z |-> <<>>, N |-> 0]

\* NonUniformImage.__init__(x, y, z, border, **kwargs): the item made and
\* the exception raised.
NonUniformImageInit(x, y, z, border, kwargs) ==
  IF Ndim(x) # 1 \/ Ndim(y) # 1 THEN [self |-> NoImage, exc |-> "ValueError"]
  ELSE LET edge == KwargsGet(kwargs, "edgecolors")
           edgecolors == IF edge = "None" THEN NonePen ELSE CosmeticPen(edge)
       IN  IF AnyDiffNegative(x) \/ AnyDiffNegative(y)
           THEN [self |-> NoImage, exc |-> "ValueError"]
           ELSE IF Len(z.shape) # 2 \/ z.shape # <<Len(x.vals), Len(y.vals)>>
           THEN [self |-> NoImage, exc |-> "ValueError"]
           ELSE IF x.vals = <<>> \/ y.vals = <<>>
           THEN [self |-> NoImage, exc |-> "IndexError"]
           ELSE [self |-> [constructed |-> TRUE,
                           data |-> [x |-> x, y |-> y, z |-> z],
                           dataBounds |-> [isNone |-> FALSE,
                                           ax |-> <<<<x.vals[1], x.vals[Len(x.vals)]>>,
                                                    <<y.vals[1], y.vals[Len(y.vals)]>>>>],
                           edgecolors |-> edgecolors,
                           levels |-> NoLevels,
                           lut |-> NoLut,
                           picture |-> NoPicture],
                 exc |-> "none"]

\* NonUniformImage.width
width(self) ==
  IF self.dataBounds.isNone THEN 0
  ELSE self.dataBounds.ax[1][2] - self.dataBounds.ax[1][1]

\* NonUniformImage.height
height(self) ==
  IF self.dataBounds.isNone THEN 0
  ELSE self.dataBounds.ax[2][2] - self.dataBounds.ax[2][1]

\* NonUniformImage.dataBounds(ax), ax being 0 or 1.
dataBounds(self, ax) ==
  IF self.dataBounds.isNone THEN [isNone |-> TRUE, lo |-> 0, hi |-> 0]
  ELSE [isNone |-> FALSE, lo |-> self.dataBounds.ax[ax + 1][1],
        hi |-> self.dataBounds.ax[ax + 1][2]]

\* NonUniformImage.setLookupTable(lut) with a table.
setLookupTable(self, lut) ==
  [self EXCEPT !.lut = [isNone |-> FALSE, table |-> lut], !.picture = NoPicture]

\* NonUniformImage.setLevels(levels)
setLevels(self, levels) ==
  [self EXCEPT !.levels = [isNone |-> FALSE, mn |-> levels[1], mx |-> levels[2]],
               !.picture = NoPicture]

\* z[np.isfinite(z)]
Finite(z) == {z.vals[i] : i \in {k \in 1..Len(z.vals) : z.vals[k] # NaN}}

SetMin(S) == CHOOSE m \in S : \A v \in S : m <= v

SetMax(S) == CHOOSE m \in S : \A v \in S : v <= m

\* NonUniformImage.getLevels: the levels, which are taken from the finite
\* data and kept when none are set; min() of no data raises ValueError.
getLevels(self) ==
  IF self.levels.isNone
  THEN LET z == Finite(self.data.z)
       IN  IF z = {} THEN [self |-> self, mn |-> 0, mx |-> 0, exc |-> "ValueError"]
           ELSE [self |-> [self EXCEPT !.levels = [isNone |-> FALSE, mn |-> SetMin(z),
                                                   mx |-> SetMax(z)]],
                 mn |-> SetMin(z), mx |-> SetMax(z), exc |-> "none"]
  ELSE [self |-> self, mn |-> self.levels.mn, mx |-> self.levels.mx, exc |-> "none"]

\* A faulty padding, np.pad(v, 1, mode='constant'), that pads with zeros.
PadConstant(v) == <<0>> \o v \o <<0>>

\* np.pad(v, 1, mode='edge')
PadEdge(v) == <<v[1]>> \o v \o <<v[Len(v)]>>

\* (v[:-1] + v[1:]) / 2 in halves of the data unit: a coordinate of the
\* picture is the number of halves, so that every midpoint is an integer.
MidHalves(v) == [k \in 1..(Len(v) - 1) |-> v[k] + v[k + 1]]

\* v[:-1]
DropLast(v) == SubSeq(v, 1, Len(v) - 1)

\* np.diff(v)
Diff(v) == [k \in 1..(Len(v) - 1) |-> v[k + 1] - v[k]]

\* np.meshgrid(a, b, indexing='ij'), unravelled in place: the first and the
\* second grid in row-major order.
MeshFirst(a, b) == [f \in 1..(Len(a) * Len(b)) |-> a[((f - 1) \div Len(b)) + 1]]

MeshSecond(a, b) == [f \in 1..(Len(a) * Len(b)) |-> b[((f - 1) % Len(b)) + 1]]

\* The lookup table generatePicture uses: self.lut has precedence over the
\* table of nPts colours of the default colormap.
ChooseLut(self) ==
  IF self.lut.isNone THEN [k \in 1..DefaultLutLen |-> k - 1] ELSE self.lut.table

\* scale = len(lut) / rng as the fraction num / den, rng being 1 when the
\* levels are equal.
LevelScale(lut, mn, mx) ==
  LET rng == IF mx - mn = 0 THEN 1 ELSE mx - mn
  IN  [num |-> Len(lut), den |-> rng]

\* fn.rescaleData(v, scale, offset, dtype=int, clip=(lo, hi)) of one value:
\* (v - offset) * scale, clipped to lo..hi and truncated to an integer.
rescaleData(v, scale, offset, lo, hi) ==
  LET num == IF scale.den < 0 THEN -((v - offset) * scale.num)
             ELSE (v - offset) * scale.num
      den == IF scale.den < 0 THEN -scale.den ELSE scale.den
  IN  IF num <= lo * den THEN lo
      ELSE IF num >= hi * den THEN hi
      ELSE num \div den

\* A faulty quantization whose index for NaN is the last index of the table.
QuantizeNaNInRange(z, lut, mn, mx) ==
  LET scale == LevelScale(lut, mn, mx)
  IN  [f \in 1..Len(z.vals) |->
         IF z.vals[f] = NaN THEN Len(lut) - 1
         ELSE rescaleData(z.vals[f], scale, mn, 0, Len(lut) - 1)]

\* generatePicture, "normalize and quantize": the colour index of every
\* cell, NaN cells getting the invalid index len(lut).
Quantize(z, lut, mn, mx) ==
  LET scale == LevelScale(lut, mn, mx)
      invalid_coloridx == Len(lut)
  IN  [f \in 1..Len(z.vals) |->
         IF z.vals[f] = NaN THEN invalid_coloridx
         ELSE rescaleData(z.vals[f], scale, mn, 0, Len(lut) - 1)]

RECURSIVE SortSet(_)
\* The elements of a set of integers in increasing order.
SortSet(S) ==
  IF S = {} THEN <<>>
  ELSE LET m == SetMin(S) IN <<m>> \o SortSet(S \ {m})

\* np.unique(Z, return_counts=True)
Unique(Z) ==
  LET color_indices == SortSet({Z[f] : f \in 1..Len(Z)})
  IN  [color_indices |-> color_indices,
       counts |-> [k \in 1..Len(color_indices) |->
                     Cardinality({f \in 1..Len(Z) : Z[f] = color_indices[k]})]]

RECURSIVE ArgSortFrom(_, _)
\* np.argsort(Z, axis=None): the flat indices by increasing Z, here with
\* the cells of equal Z in index order.
ArgSortFrom(Z, left) ==
  IF left = {} THEN <<>>
  ELSE LET f == CHOOSE g \in left :
                  \A h \in left : Z[g] < Z[h] \/ (Z[g] = Z[h] /\ g <= h)
       IN  <<f>> \o ArgSortFrom(Z, left \ {f})

ArgSort(Z) == ArgSortFrom(Z, 1..Len(Z))

RECURSIVE DrawTilesNoOffset(_, _, _, _)
\* A faulty loop that never advances offset.
DrawTilesNoOffset(c, k, offset, drawn) ==
  IF k > Len(c.color_indices) THEN drawn
  ELSE IF c.color_indices[k] = c.invalid_coloridx
  THEN DrawTilesNoOffset(c, k + 1, offset, drawn)
  ELSE LET cnt == c.counts[k]
           indices == SubSeq(c.sorted_indices, 1, cnt)
           batch == [coloridx |-> c.color_indices[k],
                     brush |-> c.lut[c.color_indices[k] + 1],
                     rects |-> [t \in 1..cnt |->
                                  [cell |-> indices[t], x |-> c.X[indices[t]],
                                   y |-> c.Y[indices[t]], w |-> c.W[indices[t]],
                                   h |-> c.H[indices[t]]]]]
       IN  DrawTilesNoOffset(c, k + 1, offset, Append(drawn, batch))

RECURSIVE DrawTiles(_, _, _, _)
\* generatePicture, "draw the tiles grouped by coloridx": the drawRects
\* batches, each with its brush and its rectangles; cell is the flat index
\* the rectangle was taken at.
DrawTiles(c, k, offset, drawn) ==
  IF k > Len(c.color_indices) THEN drawn
  ELSE IF c.color_indices[k] = c.invalid_coloridx
  THEN DrawTiles(c, k + 1, offset, drawn)
  ELSE LET cnt == c.counts[k]
           indices == SubSeq(c.sorted_indices, offset + 1, offset + cnt)
           batch == [coloridx |-> c.color_indices[k],
                     brush |-> c.lut[c.color_indices[k] + 1],
                     rects |-> [t \in 1..cnt |->
                                  [cell |-> indices[t], x |-> c.X[indices[t]],
                                   y |-> c.Y[indices[t]], w |-> c.W[indices[t]],
                                   h |-> c.H[indices[t]]]]]
       IN  DrawTiles(c, k + 1, offset + cnt, Append(drawn, batch))

\* NonUniformImage.generatePicture: the item with its picture, or the
\* exception getLevels raised.
generatePicture(self) ==
  LET x == MidHalves(PadEdge(self.data.x.vals))
      y == MidHalves(PadEdge(self.data.y.vals))
      lut == ChooseLut(self)
      lv == getLevels(self)
  IN  IF lv.exc # "none" THEN [self |-> self, exc |-> lv.exc]
      ELSE LET Z == Quantize(self.data.z, lut, lv.mn, lv.mx)
               u == Unique(Z)
               c == [X |-> MeshFirst(DropLast(x), DropLast(y)),
                     Y |-> MeshSecond(DropLast(x), DropLast(y)),
                     W |-> MeshFirst(Diff(x), Diff(y)),
                     H |-> MeshSecond(Diff(x), Diff(y)),
                     lut |-> lut, invalid_coloridx |-> Len(lut),
                     color_indices |-> u.color_indices, counts |-> u.counts,
                     sorted_indices |-> ArgSort(Z)]
           IN  [self |-> [lv.self EXCEPT !.picture =
                            [isNone |-> FALSE, batches |-> DrawTiles(c, 1, 0, <<>>),
                             outline |-> self.edgecolors, Z |-> Z, N |-> Len(lut)]],
                exc |-> "none"]

\* NonUniformImage.paint: the picture is generated when there is none.
paint(self) ==
  IF self.picture.isNone THEN generatePicture(self) ELSE [self |-> self, exc |-> "none"]

(***************************************************************************)
(* One NonUniformImage under the calls of a client.                        *)
(***************************************************************************)
\* The 1-d arrays with at most MaxLen coordinates.
Arrays1 == {Arr1(v) : v \in UNION {[1..n -> 0..MaxCoord] : n \in 0..MaxLen}}

\* The 1-d arrays of coordinates 0 and 1: empty, constant, increasing and
\* decreasing ones.
Arrays01 == {a \in Arrays1 : \A k \in 1..Len(a.vals) : a.vals[k] \in 0..1}

\* A 0-d and a 2-d array.
ArraysNot1 == {[shape |-> <<>>, vals |-> <<0>>], [shape |-> <<1, 1>>, vals |-> <<0>>]}

\* The arrays of zeros of a shape.
Zeros1(n) == [shape |-> <<n>>, vals |-> [k \in 1..n |-> 0]]

Zeros2(n, m) == Arr2(n, m, [k \in 1..(n * m) |-> 0])

\* The z arrays of one, two and three dimensions.
ZShapes ==
  {Zeros1(n) : n \in 0..MaxLen} \cup {Zeros2(n, m) : n \in 0..MaxLen, m \in 0..MaxLen}
    \cup {[shape |-> <<1, 1, 1>>, vals |-> <<0>>]}

\* The non-empty 1-d arrays without a decreasing pair.
Increasing ==
  {a \in Arrays1 : a.vals # <<>> /\ ~AnyDiffNegative(a)}

\* The keywords NonUniformImage() is called with.
ImageKwargs == {EmptyDict, [edgecolors |-> "b"], [edgecolors |-> "None"]}

\* The lookup tables a client sets: n colours.
LutChoices == {[k \in 1..n |-> 100 + k] : n \in 1..MaxLut}

\* The levels a client sets.
LevelChoices == (0..MaxZ) \X (0..MaxZ)

\* The 2 x 2 grid the colours are checked on and its data.
GridX == Arr1(<<0, 1>>)

GridY == Arr1(<<0, 2>>)

GridData == {Arr2(2, 2, v) : v \in [1..4 -> {NaN} \cup 0..MaxZ]}

InitImage ==
  /\ opts = defaultOpts
  /\ optStack = <<>>
  /\ function = [name |-> "f", args |-> <<>>, kwargs |-> FALSE]
  /\ closures = EmptyDict
  /\ extra = EmptyDict
  /\ parameters = <<>>
  /\ disconnected = FALSE
  /\ parametersNeedRunKwargs = FALSE
  /\ parameterCache = EmptyDict
  /\ pool = <<>>
  /\ runs = <<>>
  /\ rets = <<>>
  /\ interactBound = {}
  /\ image = NoImage
  /\ last = [op |-> "init"]

\* item = NonUniformImage(x, y, z, border, **kwargs), the first call of the
\* client, with the arguments taken from the given sets.  A constructor that
\* raises leaves no item, and the client ends there.
ConstructWith(xs, ys, zs, borders, kws) ==
  /\ last.op = "init"
  /\ \E x \in xs, y \in ys, z \in zs, border \in borders, kwargs \in kws :
       LET r == NonUniformImageInit(x, y, z, border, kwargs)
       IN  /\ image' = r.self
           /\ last' = [op |-> "construct", exc |-> r.exc, x |-> x, y |-> y, z |-> z,
                       border |-> border, kwargs |-> kwargs]
  /\ UNCHANGED <<opts, optStack, fnVars>>

\* The constructor with well-formed and malformed arrays.
Construct ==
  ConstructWith(Arrays01 \cup ArraysNot1, Arrays01 \cup ArraysNot1, ZShapes,
                {"None", "r"}, ImageKwargs)

\* The constructor with increasing coordinates of every spacing.
ConstructTiles ==
  /\ last.op = "init"
  /\ \E x \in Increasing, y \in Increasing :
       ConstructWith({x}, {y}, {Zeros2(Len(x.vals), Len(y.vals))}, {"None"}, {EmptyDict})

\* The constructor with every data on the 2 x 2 grid.
ConstructGrid == ConstructWith({GridX}, {GridY}, GridData, {"None"}, {EmptyDict})

\* item.setLookupTable(lut)
SetLookupTable ==
  \E lut \in LutChoices :
    /\ image.constructed
    /\ image' = setLookupTable(image, lut)
    /\ last' = [last EXCEPT !.op = "setLookupTable", !.exc = "none"]
    /\ UNCHANGED <<opts, optStack, fnVars>>

\* item.setLevels(levels)
SetLevels ==
  \E levels \in LevelChoices :
    /\ image.constructed
    /\ image' = setLevels(image, levels)
    /\ last' = [last EXCEPT !.op = "setLevels", !.exc = "none"]
    /\ UNCHANGED <<opts, optStack, fnVars>>

\* item.paint(painter)
Paint ==
  /\ image.constructed
  /\ LET r == paint(image)
     IN  /\ image' = r.self
         /\ last' = [last EXCEPT !.op = "paint", !.exc = r.exc]
  /\ UNCHANGED <<opts, optStack, fnVars>>

NextImage ==
  \/ Construct
  \/ Paint

\* A client that constructs an item from any arrays and shows it.
SpecImage == InitImage /\ [][NextImage]_vars

NextTiles ==
  \/ ConstructTiles
  \/ Paint

\* A client that shows an item with any increasing coordinates.
SpecTiles == InitImage /\ [][NextTiles]_vars

NextColors ==
  \/ ConstructGrid
  \/ SetLookupTable
  \/ SetLevels
  \/ Paint

\* A client that shows any data with any lookup table and levels.
SpecColors == InitImage /\ [][NextColors]_vars

(***************************************************************************)
(* The claims about the constructor.                                       *)
(***************************************************************************)
\* The arguments of the constructor fail one of the three checks: x or y is
\* not 1-dimensional, an adjacent pair of x or of y is decreasing, or z is
\* not 2-dimensional with shape (x.size, y.size).
Malformed(x, y, z) ==
  \/ Len(x.shape) # 1
  \/ Len(y.shape) # 1
  \/ \E k \in 1..(Len(x.vals) - 1) : x.vals[k + 1] < x.vals[k]
  \/ \E k \in 1..(Len(y.vals) - 1) : y.vals[k + 1] < y.vals[k]
  \/ Len(z.shape) # 2
  \/ z.shape # <<Len(x.vals), Len(y.vals)>>

\* C11: NonUniformImage(x, y, z) raises ValueError when x or y is not
\* 1-dimensional, when an adjacent pair of x or of y is decreasing, or when z
\* is not 2-dimensional with shape (x.size, y.size); with arguments that pass
\* the three checks the construction succeeds and dataBounds(0) is
\* (x[0], x[-1]), dataBounds(1) is (y[0], y[-1]), width() is x[-1] - x[0] and
\* height() is y[-1] - y[0].
C11_RejectsMalformedElseBounds ==
  last.op = "construct" =>
    IF Malformed(last.x, last.y, last.z)
    THEN last.exc = "ValueError" /\ ~image.constructed
    ELSE /\ last.exc = "none"
         /\ image.constructed
         /\ LET x == last.x.vals
                y == last.y.vals
            IN  /\ dataBounds(image, 0) = [isNone |-> FALSE, lo |-> x[1], hi |-> x[Len(x)]]
                /\ dataBounds(image, 1) = [isNone |-> FALSE, lo |-> y[1], hi |-> y[Len(y)]]
                /\ width(image) = x[Len(x)] - x[1]
                /\ height(image) = y[Len(y)] - y[1]

\* C12: an item constructed with a border other than None and no edgecolors
\* keyword has its border pen (edgecolors) set from the border argument, and
\* the picture it generates holds the outline of the bounding rectangle.
C12_BorderIsDrawn ==
  (/\ image.constructed
   /\ last.border # "None"
   /\ "edgecolors" \notin DOMAIN last.kwargs)
    => /\ image.edgecolors = CosmeticPen(last.border)
       /\ ~image.picture.isNone => image.picture.outline = CosmeticPen(last.border)

(***************************************************************************)
(* The claims about the picture.  Lengths of the picture are in halves of  *)
(* the unit of the data, as MidHalves gives them.                          *)
(***************************************************************************)
\* The row and the column of the cell of a flat index in an array of ny
\* columns.
RowOf(f, ny) == ((f - 1) \div ny) + 1

ColOf(f, ny) == ((f - 1) % ny) + 1

\* Where cell i of the coordinates v starts and ends: at the midpoints
\* between v[i] and its neighbours, at v[i] itself where there is none.
CellStart(v, i) == IF i = 1 THEN 2 * v[1] ELSE v[i - 1] + v[i]

CellEnd(v, i) == IF i = Len(v) THEN 2 * v[Len(v)] ELSE v[i] + v[i + 1]

\* The places of the picture, batch and position in it, where the rectangle
\* of the cell of flat index f is drawn.
Painted(f) ==
  {bt \in UNION {{<<b, t>> : t \in 1..Len(image.picture.batches[b].rects)} :
                   b \in 1..Len(image.picture.batches)} :
     image.picture.batches[bt[1]].rects[bt[2]].cell = f}

\* The flat indices of the cells whose z is not NaN.
ValidCells == {f \in 1..Len(image.data.z.vals) : image.data.z.vals[f] # NaN}

\* C13: in a generated picture every cell whose z is not NaN is painted
\* exactly once, by the batch of its own colour index with the brush
\* lut[index] and with its own rectangle; no NaN cell is painted; and there
\* is exactly one drawRects batch for each distinct valid colour index of the
\* data.
C13_TilesGroupedByColor ==
  (image.constructed /\ ~image.picture.isNone) =>
    LET pic == image.picture
        x == image.data.x.vals
        y == image.data.y.vals
        ny == Len(y)
        lut == ChooseLut(image)
    IN  /\ \A f \in ValidCells :
             /\ Cardinality(Painted(f)) = 1
             /\ \A bt \in Painted(f) :
                  LET batch == pic.batches[bt[1]]
                      rect == batch.rects[bt[2]]
                  IN  /\ batch.coloridx = pic.Z[f]
                      /\ batch.brush = lut[pic.Z[f] + 1]
                      /\ rect.x = CellStart(x, RowOf(f, ny))
                      /\ rect.y = CellStart(y, ColOf(f, ny))
                      /\ rect.w = CellEnd(x, RowOf(f, ny)) - CellStart(x, RowOf(f, ny))
                      /\ rect.h = CellEnd(y, ColOf(f, ny)) - CellStart(y, ColOf(f, ny))
        /\ \A f \in (1..Len(image.data.z.vals)) \ ValidCells : Painted(f) = {}
        /\ \A b \in 1..Len(pic.batches) :
             /\ pic.batches[b].coloridx \in {pic.Z[f] : f \in ValidCells}
             /\ \A b2 \in 1..Len(pic.batches) :
                  pic.batches[b2].coloridx = pic.batches[b].coloridx => b2 = b
        /\ Len(pic.batches) = Cardinality({pic.Z[f] : f \in ValidCells})

\* A picture of data with a NaN cell and two colour indices, one of them of
\* two cells, drawn with a lookup table the client set.
C13_Witness ==
  /\ image.constructed
  /\ ~image.picture.isNone
  /\ ~image.lut.isNone
  /\ ValidCells # 1..Len(image.data.z.vals)
  /\ Len(image.picture.batches) = 2
  /\ \E b \in 1..2 : Len(image.picture.batches[b].rects) = 2

RECURSIVE SumSeq(_)
\* The sum of a sequence of numbers.
SumSeq(v) == IF v = <<>> THEN 0 ELSE v[1] + SumSeq(Tail(v))

\* The rectangle the picture holds for the cell of row i and column j.
RectOf(i, j) ==
  LET f == (i - 1) * Len(image.data.y.vals) + j
      bt == CHOOSE p \in Painted(f) : TRUE
  IN  image.picture.batches[bt[1]].rects[bt[2]]

\* C14: the rectangles of a generated picture tile the data bounds.  Along x
\* the cells of row i start at the midpoint of x[i-1] and x[i] and end at the
\* midpoint of x[i] and x[i+1], the first row starting at x[0] and the last
\* ending at x[-1]; every width is at least 0, each row starts where the row
\* before it ends, and the widths of the rows sum to x[-1] - x[0].  The same
\* holds along y of the columns and the heights.
C14_RectanglesTileBounds ==
  (image.constructed /\ ~image.picture.isNone) =>
    LET x == image.data.x.vals
        y == image.data.y.vals
        nx == Len(x)
        ny == Len(y)
    IN  /\ \A i \in 1..nx, j \in 1..ny :
             LET r == RectOf(i, j)
             IN  /\ Painted((i - 1) * ny + j) # {}
                 /\ r.x = (IF i = 1 THEN 2 * x[1] ELSE x[i - 1] + x[i])
                 /\ r.x + r.w = (IF i = nx THEN 2 * x[nx] ELSE x[i] + x[i + 1])
                 /\ r.y = (IF j = 1 THEN 2 * y[1] ELSE y[j - 1] + y[j])
                 /\ r.y + r.h = (IF j = ny THEN 2 * y[ny] ELSE y[j] + y[j + 1])
                 /\ r.w >= 0
                 /\ r.h >= 0
                 /\ i < nx => RectOf(i + 1, j).x = r.x + r.w
                 /\ j < ny => RectOf(i, j + 1).y = r.y + r.h
        /\ \A j \in 1..ny : SumSeq([i \in 1..nx |-> RectOf(i, j).w]) = 2 * (x[nx] - x[1])
        /\ \A i \in 1..nx : SumSeq([j \in 1..ny |-> RectOf(i, j).h]) = 2 * (y[ny] - y[1])

\* A picture of a grid of three rows of unequal spacing that does not start
\* at 0, and of two columns apart.
C14_Witness ==
  /\ image.constructed
  /\ ~image.picture.isNone
  /\ Len(image.data.x.vals) = 3
  /\ image.data.x.vals[1] > 0
  /\ image.data.x.vals[2] - image.data.x.vals[1] # image.data.x.vals[3] - image.data.x.vals[2]
  /\ Len(image.data.y.vals) >= 2
  /\ image.data.y.vals[1] < image.data.y.vals[2]

\* The colour index of a value v at distance d = v - mn above the lower
\* level when the range is 1: d * N, kept within 0..N-1.
IndexOfRangeOne(d, N) ==
  IF d * N <= 0 THEN 0 ELSE IF d * N >= N - 1 THEN N - 1 ELSE d * N

\* The NaN cells of a generated picture have the index N, and no batch is
\* drawn with an index outside the lookup table.
NaNIndexUnused ==
  /\ \A f \in (1..Len(image.data.z.vals)) \ ValidCells : image.picture.Z[f] = image.picture.N
  /\ \A b \in 1..Len(image.picture.batches) :
       image.picture.batches[b].coloridx \in 0..(image.picture.N - 1)

\* C15, as the claim states it: in a generated picture with a lookup table of
\* N colours and the levels (mn, mx), whatever they are, every value that is
\* not NaN has an index in 0..N-1, a value below mn has index 0, a value at
\* or above mx has index N-1, and the index is non-decreasing in z; with
\* mn = mx the index is computed with the range 1; a NaN value has the index
\* N, with which no batch is drawn.
C15_IndexWithinLevelsAsStated ==
  (image.constructed /\ ~image.picture.isNone) =>
    LET z == image.data.z.vals
        Z == image.picture.Z
        N == image.picture.N
        mn == image.levels.mn
        mx == image.levels.mx
    IN  /\ N >= 1
        /\ \A f \in ValidCells :
             /\ Z[f] \in 0..(N - 1)
             /\ z[f] < mn => Z[f] = 0
             /\ z[f] >= mx => Z[f] = N - 1
             /\ mn = mx => Z[f] = IndexOfRangeOne(z[f] - mn, N)
             /\ \A g \in ValidCells : z[f] <= z[g] => Z[f] <= Z[g]
        /\ NaNIndexUnused

\* C15, amended: in a generated picture with a lookup table of N colours and
\* the levels (mn, mx), every value that is not NaN has an index in 0..N-1.
\* With mn < mx a value below mn has index 0, a value at or above mx has
\* index N-1 and the index is non-decreasing in z.  With mn = mx the index is
\* computed with the range 1: a value at or below mn, so also a value equal
\* to mx, has index 0, and the index is non-decreasing in z.  With mn > mx a
\* value at or above mn has index 0, a value at or below mx has index N-1 and
\* the index is non-increasing in z.  A NaN value has the index N, with which
\* no batch is drawn.
C15_IndexWithinLevels ==
  (image.constructed /\ ~image.picture.isNone) =>
    LET z == image.data.z.vals
        Z == image.picture.Z
        N == image.picture.N
        mn == image.levels.mn
        mx == image.levels.mx
    IN  /\ N >= 1
        /\ \A f \in ValidCells :
             /\ Z[f] \in 0..(N - 1)
             /\ mn < mx =>
                  /\ z[f] < mn => Z[f] = 0
                  /\ z[f] >= mx => Z[f] = N - 1
                  /\ \A g \in ValidCells : z[f] <= z[g] => Z[f] <= Z[g]
             /\ mn = mx =>
                  /\ Z[f] = IndexOfRangeOne(z[f] - mn, N)
                  /\ z[f] <= mn => Z[f] = 0
                  /\ \A g \in ValidCells : z[f] <= z[g] => Z[f] <= Z[g]
             /\ mn > mx =>
                  /\ z[f] >= mn => Z[f] = 0
                  /\ z[f] <= mx => Z[f] = N - 1
                  /\ \A g \in ValidCells : z[f] <= z[g] => Z[f] >= Z[g]
        /\ NaNIndexUnused

\* A picture drawn with equal levels and a table of at least two colours of
\* data that holds a value equal to the levels, a larger value and a NaN.
C15_Witness ==
  /\ image.constructed
  /\ ~image.picture.isNone
  /\ image.picture.N >= 2
  /\ image.levels.mn = image.levels.mx
  /\ \E f \in ValidCells : image.data.z.vals[f] = image.levels.mx
  /\ \E f \in ValidCells : image.data.z.vals[f] > image.levels.mx
  /\ ValidCells # 1..Len(image.data.z.vals)

====
